---- MODULE Spec2Model ----
(***************************************************************************)
(* Model of src/tls/io/tls-io.c: read_data_from_ssl, its helpers           *)
(* (wait_for_first_message, treat_SSL_read_error, save_read_data) and      *)
(* write_data_in_ssl, as run by one synchronous caller thread.             *)
(*                                                                         *)
(* Memory is modelled byte by byte: `body` is the heap block (its length   *)
(* is the size really reserved), `read_buffer` the 161-byte stack array.   *)
(* A byte nobody has written yet holds Indeterminate.                      *)
(***************************************************************************)
EXTENDS Integers, Sequences, FiniteSets, TLC

\* ---------------------------------------------------------------- constants
FULL_BUFFER_SIZE == 1024
READER_BUFFER_SIZE == 160
SLEEP_TIME == 10
MAX_RETRIES_TO_START_READING == 10
MAX_RETRIES_TO_STOP_READING == 3

\* SSL_get_error codes (openssl/ssl.h), as the source names them.
SSL_ERROR_SSL == 1
SSL_ERROR_WANT_READ == 2
SSL_ERROR_WANT_WRITE == 3
SSL_ERROR_WANT_X509_LOOKUP == 4
SSL_ERROR_SYSCALL == 5
SSL_ERROR_ZERO_RETURN == 6

\* Content of a byte of malloc'ed or stack storage that was never written.
Indeterminate == -1

\* ------------------------------------------------------------------- bounds
\* Chunks the peer delivers within one read operation.
MaxChunks == 7
\* Raw reads of one read operation that fail with an error code outside the
\* four the source names.
MaxUnclassified == 1

\* Sizes of the chunks a raw read may return (each within 1..READER_BUFFER_SIZE).
ChunkLens == {64, 160}
\* The first chunk of an operation also takes the smallest size, which puts
\* every later offset off the 32-byte grid.
FirstChunkLens == {1} \cup ChunkLens
\* Chunks of one read operation when the peer sends full-size chunks only
\* (specification SpecBuf): enough for the buffer to grow twice.
MaxChunksLong == 13
LongLens == {READER_BUFFER_SIZE}
\* milliseconds_sleep (specification SleepSpec): interruptions of one sleep,
\* the arguments tried (both callers pass SLEEP_TIME; the parameter is a long,
\* so a value above one second and a negative one are tried too), the
\* milliseconds a nanosleep call has lasted when a signal interrupts it, and
\* the values errno may hold when the function is entered.
MaxInterrupts == 3
SleepArgs == {SLEEP_TIME, 1005, -5}
InterruptAfter == {0, 1, 7, 500}
Errnos == {"none", "EINTR", "EINVAL"}
\* Payload sizes handed to the writer.
WriteLens == {1, 500}

VARIABLES
    pc,                             \* position of the caller thread
    last_op,                        \* operation that returned last
    end_connection,                 \* the caller's bool *end_connection
    total_bytes,                    \* the caller's int *total_bytes
    first_reading_done,
    attempts_after_end_message,
    attempts_to_get_first_message,
    allocated_space,
    read_bytes,
    err,
    read_buffer,
    body,                           \* heap block, Len(body) = bytes reserved
    body_null,                      \* body == NULL
    \* history of the current read operation
    entry_end_connection,           \* *end_connection on entry
    chunk_lens,                     \* sizes of the chunks the raw reads delivered
    fail_streak,                    \* failing raw reads since the last chunk
    sleeps,                         \* milliseconds_sleep calls since the last chunk
    exit_reason,                    \* which break left the loop
    unclassified,                   \* raw reads whose error code is outside the four
    alloc_failed,                   \* malloc/realloc returned NULL
    heap_overflow,                  \* a store fell outside the heap block
    \* write_data_in_ssl
    w_total_bytes, w_ret, w_written, w_status, w_result, raw_writes,
    \* milliseconds_sleep
    s_pc,                           \* position inside milliseconds_sleep
    s_milliseconds,                 \* its parameter
    s_ts,                           \* struct timespec ts
    s_res,
    s_errno,
    s_elapsed,                      \* milliseconds really spent suspended
    s_calls                         \* nanosleep calls of the current sleep

vars == <<pc, last_op, end_connection, total_bytes, first_reading_done,
          attempts_after_end_message, attempts_to_get_first_message,
          allocated_space, read_bytes, err, read_buffer, body, body_null,
          entry_end_connection, chunk_lens, fail_streak, sleeps,
          exit_reason, unclassified, alloc_failed,
          heap_overflow, w_total_bytes, w_ret, w_written, w_status, w_result,
          raw_writes, s_pc, s_milliseconds, s_ts, s_res, s_errno, s_elapsed,
          s_calls>>

readVars == <<end_connection, total_bytes, first_reading_done,
              attempts_after_end_message, attempts_to_get_first_message,
              allocated_space, read_bytes, err, read_buffer, body, body_null,
              entry_end_connection, chunk_lens, fail_streak, sleeps,
              exit_reason, unclassified, alloc_failed, heap_overflow>>

writeVars == <<w_total_bytes, w_ret, w_written, w_status, w_result, raw_writes>>

sleepVars == <<s_pc, s_milliseconds, s_ts, s_res, s_errno, s_elapsed, s_calls>>

\* ------------------------------------------------------------------ helpers
Min(a, b) == IF a < b THEN a ELSE b

\* n bytes of storage nobody has written.
Fresh(n) == [i \in 1..n |-> Indeterminate]

\* malloc(n) that succeeds.
malloc(n) == Fresh(n)

\* realloc(b, n) that succeeds: the first min(old, new) bytes are kept.
realloc(b, n) == IF n <= Len(b) THEN SubSeq(b, 1, n) ELSE b \o Fresh(n - Len(b))

\* Byte j (0-based) of the k-th chunk the peer sends in one read operation.
ChunkByte(k, j) == (k * 41 + j) % 256

Chunk(k, len) == [i \in 1..len |-> ChunkByte(k, i - 1)]

\* memcpy(dst + off, src, n) into a block of Len(dst) bytes; bytes that fall
\* beyond the block are not part of it (see MemcpyOverflows).
memcpy(dst, off, src, n) ==
    IF off >= Len(dst)
    THEN dst
    ELSE LET m == Min(n, Len(dst) - off)
         IN  SubSeq(dst, 1, off) \o SubSeq(src, 1, m)
                \o SubSeq(dst, off + m + 1, Len(dst))

MemcpyOverflows(dst, off, n) == n > 0 /\ off + n > Len(dst)

\* milliseconds_sleep as seen by its callers: one more backoff sleep; the
\* result is ignored by both callers.
milliseconds_sleep(n) == n + 1

\* wait_for_first_message(&attempts): [ret, attempts, sleeps].
wait_for_first_message(attempts, slept) ==
    LET a == attempts + 1
    IN  [ret      |-> IF a = MAX_RETRIES_TO_START_READING THEN -1 ELSE 0,
         attempts |-> a,
         sleeps   |-> milliseconds_sleep(slept)]

\* treat_SSL_read_error with the total_bytes == 0 test of line 50 left out.
treat_SSL_read_error_flag_always(e, attempts, total, rbytes, endc, slept) ==
    IF rbytes = 0
    THEN [ret |-> -1, attempts |-> attempts, end_connection |-> TRUE,
          sleeps |-> slept, why |-> "zero_read"]
    ELSE IF e = SSL_ERROR_WANT_READ
    THEN LET a == attempts + 1
         IN  [ret |-> IF a = MAX_RETRIES_TO_STOP_READING THEN -1 ELSE 0,
              attempts |-> a, end_connection |-> endc,
              sleeps |-> milliseconds_sleep(slept), why |-> "stop_reading"]
    ELSE IF e = SSL_ERROR_WANT_WRITE \/ e = SSL_ERROR_SYSCALL \/ e = SSL_ERROR_SSL
    THEN [ret |-> -1, attempts |-> attempts, end_connection |-> endc,
          sleeps |-> slept, why |-> "abnormal"]
    ELSE [ret |-> 0, attempts |-> attempts, end_connection |-> endc,
          sleeps |-> slept, why |-> "none"]

\* treat_SSL_read_error with SSL_ERROR_SYSCALL missing from the test of line 66.
treat_SSL_read_error_no_syscall(e, attempts, total, rbytes, endc, slept) ==
    IF rbytes = 0
    THEN [ret |-> -1, attempts |-> attempts,
          end_connection |-> IF total = 0 THEN TRUE ELSE endc,
          sleeps |-> slept, why |-> "zero_read"]
    ELSE IF e = SSL_ERROR_WANT_READ
    THEN LET a == attempts + 1
         IN  [ret |-> IF a = MAX_RETRIES_TO_STOP_READING THEN -1 ELSE 0,
              attempts |-> a, end_connection |-> endc,
              sleeps |-> milliseconds_sleep(slept), why |-> "stop_reading"]
    ELSE IF e = SSL_ERROR_WANT_WRITE \/ e = SSL_ERROR_SSL
    THEN [ret |-> -1, attempts |-> attempts, end_connection |-> endc,
          sleeps |-> slept, why |-> "abnormal"]
    ELSE [ret |-> 0, attempts |-> attempts, end_connection |-> endc,
          sleeps |-> slept, why |-> "none"]

\* treat_SSL_read_error comparing with > instead of == on line 64.
treat_SSL_read_error_off_by_one(e, attempts, total, rbytes, endc, slept) ==
    IF rbytes = 0
    THEN [ret |-> -1, attempts |-> attempts,
          end_connection |-> IF total = 0 THEN TRUE ELSE endc,
          sleeps |-> slept, why |-> "zero_read"]
    ELSE IF e = SSL_ERROR_WANT_READ
    THEN LET a == attempts + 1
         IN  [ret |-> IF a > MAX_RETRIES_TO_STOP_READING THEN -1 ELSE 0,
              attempts |-> a, end_connection |-> endc,
              sleeps |-> milliseconds_sleep(slept), why |-> "stop_reading"]
    ELSE IF e = SSL_ERROR_WANT_WRITE \/ e = SSL_ERROR_SYSCALL \/ e = SSL_ERROR_SSL
    THEN [ret |-> -1, attempts |-> attempts, end_connection |-> endc,
          sleeps |-> slept, why |-> "abnormal"]
    ELSE [ret |-> 0, attempts |-> attempts, end_connection |-> endc,
          sleeps |-> slept, why |-> "none"]

\* treat_SSL_read_error(err, &attempts, total_bytes, read_bytes, &end_connection).
treat_SSL_read_error(e, attempts, total, rbytes, endc, slept) ==
    IF rbytes = 0
    THEN [ret |-> -1, attempts |-> attempts,
          end_connection |-> IF total = 0 THEN TRUE ELSE endc,
          sleeps |-> slept, why |-> "zero_read"]
    ELSE IF e = SSL_ERROR_WANT_READ
    THEN LET a == attempts + 1
         IN  [ret |-> IF a = MAX_RETRIES_TO_STOP_READING THEN -1 ELSE 0,
              attempts |-> a, end_connection |-> endc,
              sleeps |-> milliseconds_sleep(slept), why |-> "stop_reading"]
    ELSE IF e = SSL_ERROR_WANT_WRITE \/ e = SSL_ERROR_SYSCALL \/ e = SSL_ERROR_SSL
    THEN [ret |-> -1, attempts |-> attempts, end_connection |-> endc,
          sleeps |-> slept, why |-> "abnormal"]
    ELSE [ret |-> 0, attempts |-> attempts, end_connection |-> endc,
          sleeps |-> slept, why |-> "none"]

\* save_read_data that tests the headroom against read_bytes instead of
\* READER_BUFFER_SIZE.
save_read_data_exact_headroom(b, rbuf, space, total, rbytes, ok) ==
    IF space - rbytes >= total
    THEN [body |-> memcpy(b, total, rbuf, rbytes), allocated_space |-> space,
          overflow |-> MemcpyOverflows(b, total, rbytes),
          grew |-> FALSE, failed |-> FALSE]
    ELSE LET space2 == space * 2
             b2 == IF ok THEN realloc(b, space2 + 1) ELSE b
         IN  [body |-> memcpy(b2, total, rbuf, rbytes), allocated_space |-> space2,
              overflow |-> MemcpyOverflows(b2, total, rbytes),
              grew |-> TRUE, failed |-> ~ok]

\* save_read_data that takes a new block with malloc instead of realloc and
\* never copies the old content into it.
save_read_data_fresh_block(b, rbuf, space, total, rbytes, ok) ==
    IF space - READER_BUFFER_SIZE >= total
    THEN [body |-> memcpy(b, total, rbuf, rbytes), allocated_space |-> space,
          overflow |-> MemcpyOverflows(b, total, rbytes),
          grew |-> FALSE, failed |-> FALSE]
    ELSE LET space2 == space * 2
             b2 == IF ok THEN malloc(space2 + 1) ELSE b
         IN  [body |-> memcpy(b2, total, rbuf, rbytes), allocated_space |-> space2,
              overflow |-> MemcpyOverflows(b2, total, rbytes),
              grew |-> TRUE, failed |-> ~ok]

\* save_read_data whose growth branch reallocates but does not copy the chunk.
save_read_data_no_copy_on_growth(b, rbuf, space, total, rbytes, ok) ==
    IF space - READER_BUFFER_SIZE >= total
    THEN [body |-> memcpy(b, total, rbuf, rbytes), allocated_space |-> space,
          overflow |-> MemcpyOverflows(b, total, rbytes),
          grew |-> FALSE, failed |-> FALSE]
    ELSE LET space2 == space * 2
             b2 == IF ok THEN realloc(b, space2 + 1) ELSE b
         IN  [body |-> b2, allocated_space |-> space2, overflow |-> FALSE,
              grew |-> TRUE, failed |-> ~ok]

\* save_read_data(&body, read_buffer, &allocated_space, total_bytes, read_bytes)
\* with the outcome of its realloc (ok) given: [body, allocated_space, overflow,
\* grew, failed].
save_read_data(b, rbuf, space, total, rbytes, ok) ==
    IF space - READER_BUFFER_SIZE >= total
    THEN [body |-> memcpy(b, total, rbuf, rbytes), allocated_space |-> space,
          overflow |-> MemcpyOverflows(b, total, rbytes),
          grew |-> FALSE, failed |-> FALSE]
    ELSE LET space2 == space * 2
             b2 == IF ok THEN realloc(b, space2 + 1) ELSE b
         IN  [body |-> memcpy(b2, total, rbuf, rbytes), allocated_space |-> space2,
              overflow |-> MemcpyOverflows(b2, total, rbytes),
              grew |-> TRUE, failed |-> ~ok]

\* Whether save_read_data calls realloc at all.
NeedsGrowth(space, total) == ~(space - READER_BUFFER_SIZE >= total)

\* write_data_in_ssl whose default case returns ret instead of -1.
write_data_in_ssl_returns_ret(ret, written, status) ==
    IF ret = 0
    THEN IF status = SSL_ERROR_WANT_WRITE \/ status = SSL_ERROR_WANT_READ
         THEN -1
         ELSE ret
    ELSE written

\* write_data_in_ssl once SSL_write_ex has returned ret, *written and
\* SSL_get_error would give status. SSL_write_ex never reports more than the
\* int total_bytes it was given, so (int)written keeps the value.
write_data_in_ssl(ret, written, status) ==
    IF ret = 0
    THEN IF status = SSL_ERROR_WANT_WRITE \/ status = SSL_ERROR_WANT_READ
         THEN -1
         ELSE -1
    ELSE written

\* write_data_in_ssl calling SSL_write_ex again when it would block on write.
AfterWrite_retry(ret, status) ==
    IF ret = 0 /\ status = SSL_ERROR_WANT_WRITE THEN "write_call" ELSE "write_ret"

\* Where write_data_in_ssl goes after SSL_write_ex returned: always to its
\* return statement, there is no loop around the call.
AfterWrite(ret, status) == "write_ret"

\* ------------------------------------------------------------- environment
\* (return value, SSL_get_error code) of a raw read that delivers nothing.
FailOutcomes ==
    { <<0, SSL_ERROR_ZERO_RETURN>>,
      <<-1, SSL_ERROR_WANT_READ>>, <<-1, SSL_ERROR_WANT_WRITE>>,
      <<-1, SSL_ERROR_SYSCALL>>, <<-1, SSL_ERROR_SSL>> }

\* SSL_get_error can also return codes the source does not name.
OtherOutcomes == { <<-1, SSL_ERROR_WANT_X509_LOOKUP>> }

Classified == {SSL_ERROR_WANT_READ, SSL_ERROR_WANT_WRITE, SSL_ERROR_SYSCALL,
               SSL_ERROR_SSL}

WriteStatuses == {SSL_ERROR_WANT_READ, SSL_ERROR_WANT_WRITE, SSL_ERROR_SYSCALL,
                  SSL_ERROR_SSL, SSL_ERROR_ZERO_RETURN}

\* --------------------------------------------------------------------- Init
WriteReset ==
    /\ w_total_bytes' = 0
    /\ w_ret' = 0
    /\ w_written' = Indeterminate
    /\ w_status' = 0
    /\ w_result' = 0
    /\ raw_writes' = 0

\* Locals and results of read_data_from_ssl while no read is in progress.
ReadReset ==
    /\ total_bytes' = 0
    /\ first_reading_done' = FALSE
    /\ attempts_after_end_message' = 0
    /\ attempts_to_get_first_message' = 0
    /\ allocated_space' = 0
    /\ read_bytes' = 0
    /\ err' = 0
    /\ read_buffer' = <<>>
    /\ body' = <<>>
    /\ body_null' = TRUE
    /\ chunk_lens' = <<>>
    /\ fail_streak' = 0
    /\ sleeps' = 0
    /\ exit_reason' = "none"
    /\ unclassified' = 0
    /\ alloc_failed' = FALSE
    /\ heap_overflow' = FALSE

Init ==
    /\ pc = "idle"
    /\ last_op = "none"
    /\ end_connection \in BOOLEAN
    /\ total_bytes = 0
    /\ first_reading_done = FALSE
    /\ attempts_after_end_message = 0
    /\ attempts_to_get_first_message = 0
    /\ allocated_space = 0
    /\ read_bytes = 0
    /\ err = 0
    /\ read_buffer = <<>>
    /\ body = <<>>
    /\ body_null = TRUE
    /\ entry_end_connection = end_connection
    /\ chunk_lens = <<>>
    /\ fail_streak = 0
    /\ sleeps = 0
    /\ exit_reason = "none"
    /\ unclassified = 0
    /\ alloc_failed = FALSE
    /\ heap_overflow = FALSE
    /\ w_total_bytes = 0
    /\ w_ret = 0
    /\ w_written = Indeterminate
    /\ w_status = 0
    /\ w_result = 0
    /\ raw_writes = 0
    /\ s_pc = "idle"
    /\ s_milliseconds = 0
    /\ s_ts = [tv_sec |-> 0, tv_nsec |-> 0]
    /\ s_res = 0
    /\ s_errno = "none"
    /\ s_elapsed = 0
    /\ s_calls = 0

\* ------------------------------------------------------ read_data_from_ssl
\* Lines 131-142: entry, locals, malloc(allocated_space).
CallRead ==
    /\ pc = "idle"
    /\ \E ok \in BOOLEAN :
        /\ body' = IF ok THEN malloc(FULL_BUFFER_SIZE) ELSE <<>>
        /\ body_null' = ~ok
        /\ alloc_failed' = ~ok
    /\ pc' = "reading"
    /\ last_op' = "none"
    /\ total_bytes' = 0
    /\ first_reading_done' = FALSE
    /\ attempts_after_end_message' = 0
    /\ attempts_to_get_first_message' = 0
    /\ allocated_space' = FULL_BUFFER_SIZE
    /\ read_bytes' = 0
    /\ err' = 0
    /\ read_buffer' = Fresh(READER_BUFFER_SIZE + 1)
    /\ entry_end_connection' = end_connection
    /\ chunk_lens' = <<>>
    /\ fail_streak' = 0
    /\ sleeps' = 0
    /\ exit_reason' = "none"
    /\ unclassified' = 0
    /\ heap_overflow' = FALSE
    /\ UNCHANGED end_connection
    /\ WriteReset
    /\ UNCHANGED sleepVars

\* Line 151 with the counter left as it is.
ResetAfterSuccess_keep(after) == after

\* Line 151: attempts_after_end_message = 0 after a successful read.
ResetAfterSuccess(after) == 0

\* Lines 145-156: one iteration whose SSL_read returns len > 0 bytes, for a
\* peer that sends at most max chunks, the first with a size in firstLens and
\* the others with a size in lens.
ReadChunkWith(max, firstLens, lens) ==
    /\ pc = "reading"
    /\ Len(chunk_lens) < max
    /\ \E len \in (IF chunk_lens = <<>> THEN firstLens ELSE lens) :
        LET data == Chunk(Len(chunk_lens) + 1, len)
            rbuf == data \o <<0>>
                      \o SubSeq(read_buffer, len + 2, READER_BUFFER_SIZE + 1)
        IN  /\ read_bytes' = len
            /\ read_buffer' = rbuf
            /\ first_reading_done' = TRUE
            /\ attempts_after_end_message' =
                  ResetAfterSuccess(attempts_after_end_message)
            /\ chunk_lens' = Append(chunk_lens, len)
            /\ fail_streak' = 0
            /\ sleeps' = 0
            /\ err' = 0
            /\ IF body_null
               THEN \* memcpy(NULL + total_bytes, ...)
                    /\ pc' = "crashed"
                    /\ UNCHANGED <<body, body_null, allocated_space, total_bytes,
                                   alloc_failed, heap_overflow>>
               ELSE \E ok \in (IF NeedsGrowth(allocated_space, total_bytes)
                               THEN BOOLEAN ELSE {TRUE}) :
                    LET s == save_read_data(body, rbuf, allocated_space,
                                            total_bytes, len, ok)
                    IN  /\ body' = s.body
                        /\ allocated_space' = s.allocated_space
                        /\ alloc_failed' = (alloc_failed \/ s.failed)
                        /\ heap_overflow' = (heap_overflow \/ s.overflow)
                        /\ total_bytes' = total_bytes + len
                        /\ UNCHANGED body_null
                        /\ IF s.overflow
                           THEN pc' \in {"reading", "crashed"}
                           ELSE pc' = "reading"
    /\ UNCHANGED <<last_op, end_connection, attempts_to_get_first_message,
                   entry_end_connection, exit_reason, unclassified>>
    /\ UNCHANGED writeVars
    /\ UNCHANGED sleepVars

ReadChunk == ReadChunkWith(MaxChunks, FirstChunkLens, ChunkLens)

\* The same iteration for a peer that sends a long message in full-size chunks.
ReadChunkLong == ReadChunkWith(MaxChunksLong, FirstChunkLens, LongLens)

\* HandleFailure that calls wait_for_first_message whether or not a byte has
\* been received.
HandleFailure_always_waits(e, rbytes, done, first, after, total, endc, slept) ==
    LET w == wait_for_first_message(first, slept)
        t == treat_SSL_read_error(e, after, total, rbytes, endc, w.sleeps)
    IN  IF w.ret # -1
        THEN [brk |-> TRUE, first |-> w.attempts, after |-> after,
              end_connection |-> endc, sleeps |-> w.sleeps, why |-> "wait_break"]
        ELSE [brk |-> t.ret = -1, first |-> w.attempts, after |-> t.attempts,
              end_connection |-> t.end_connection, sleeps |-> t.sleeps,
              why |-> IF t.ret = -1 THEN t.why ELSE "none"]

\* Lines 160-167 for a raw read that returned rbytes <= 0 with error code e:
\* [brk, first, after, end_connection, sleeps, why].
HandleFailure(e, rbytes, done, first, after, total, endc, slept) ==
    LET w == wait_for_first_message(first, slept)
        waited == ~done
        brk162 == waited /\ w.ret # -1
        slept1 == IF waited THEN w.sleeps ELSE slept
        first1 == IF waited THEN w.attempts ELSE first
        t == treat_SSL_read_error(e, after, total, rbytes, endc, slept1)
    IN  IF brk162
        THEN [brk |-> TRUE, first |-> first1, after |-> after,
              end_connection |-> endc, sleeps |-> slept1, why |-> "wait_break"]
        ELSE [brk |-> t.ret = -1, first |-> first1, after |-> t.attempts,
              end_connection |-> t.end_connection, sleeps |-> t.sleeps,
              why |-> IF t.ret = -1 THEN t.why ELSE "none"]

\* Lines 145-146, 157-168: one iteration whose SSL_read returns <= 0, with
\* the (return value, error code) taken from outcomes.
ReadFailWith(outcomes) ==
    /\ pc = "reading"
    /\ \E o \in outcomes :
        LET rbytes == o[1]
            other == o[1] # 0 /\ o[2] \notin Classified
            e == o[2]
            h == HandleFailure(e, rbytes, first_reading_done,
                               attempts_to_get_first_message,
                               attempts_after_end_message, total_bytes,
                               end_connection, sleeps)
        IN  /\ other => unclassified < MaxUnclassified
            /\ read_bytes' = rbytes
            /\ err' = e
            \* read_buffer[read_bytes] = '\0'; with read_bytes = -1 the store
            \* falls on the byte below the array, which holds none of the
            \* function's live data in the builds examined.
            /\ read_buffer' = IF rbytes >= 0
                              THEN [read_buffer EXCEPT ![rbytes + 1] = 0]
                              ELSE read_buffer
            /\ attempts_to_get_first_message' = h.first
            /\ attempts_after_end_message' = h.after
            /\ end_connection' = h.end_connection
            /\ sleeps' = h.sleeps
            /\ exit_reason' = h.why
            /\ pc' = IF h.brk THEN "finalize" ELSE "reading"
            /\ fail_streak' = fail_streak + 1
            /\ unclassified' = IF other THEN unclassified + 1 ELSE unclassified
    /\ UNCHANGED <<last_op, total_bytes, first_reading_done, allocated_space,
                   body, body_null, entry_end_connection, chunk_lens,
                   alloc_failed, heap_overflow>>
    /\ UNCHANGED writeVars
    /\ UNCHANGED sleepVars

\* A failing raw read as the interface of section 6 describes it: zero bytes,
\* or one of the four error classes.
ReadFail == ReadFailWith(FailOutcomes)

\* A failing raw read whose error code is none of the four.
ReadFailOther == ReadFailWith(OtherOutcomes)

\* Lines 171-177: realloc(body, *total_bytes + 1), the sentinel, return.
Finalize ==
    /\ pc = "finalize"
    /\ \E ok \in BOOLEAN :
        LET b == IF ok THEN realloc(body, total_bytes + 1) ELSE body
            isnull == body_null /\ ~ok
            fits == total_bytes + 1 <= Len(b)
        IN  /\ alloc_failed' = (alloc_failed \/ ~ok)
            /\ body_null' = isnull
            /\ body' = IF ~isnull /\ fits
                       THEN [b EXCEPT ![total_bytes + 1] = 0] ELSE b
            /\ heap_overflow' = (heap_overflow \/ (~isnull /\ ~fits))
            /\ IF isnull
               THEN /\ pc' = "crashed"
                    /\ UNCHANGED last_op
               ELSE IF ~fits
               THEN \/ pc' = "crashed" /\ UNCHANGED last_op
                    \/ pc' = "idle" /\ last_op' = "read"
               ELSE pc' = "idle" /\ last_op' = "read"
    /\ UNCHANGED <<end_connection, total_bytes, first_reading_done,
                   attempts_after_end_message, attempts_to_get_first_message,
                   allocated_space, read_bytes, err, read_buffer,
                   entry_end_connection, chunk_lens, fail_streak, sleeps,
                   exit_reason, unclassified>>
    /\ UNCHANGED writeVars
    /\ UNCHANGED sleepVars

\* ------------------------------------------------------- write_data_in_ssl
\* Line 188: entry with a payload of n bytes.
CallWrite ==
    /\ pc = "idle"
    /\ \E n \in WriteLens : w_total_bytes' = n
    /\ pc' = "write_call"
    /\ last_op' = "none"
    /\ w_ret' = 0
    /\ w_written' = Indeterminate
    /\ w_status' = 0
    /\ w_result' = 0
    /\ raw_writes' = 0
    \* the caller has consumed the result of an earlier read
    /\ ReadReset
    /\ UNCHANGED <<end_connection, entry_end_connection>>
    /\ UNCHANGED sleepVars

\* Line 193: the one call of SSL_write_ex and, when it failed, line 196.
SSLWriteEx ==
    /\ pc = "write_call"
    /\ \/ \E n \in {1, w_total_bytes} :
            /\ w_ret' = 1
            /\ w_written' = n
            /\ w_status' = 0
       \/ \E st \in WriteStatuses :
            /\ w_ret' = 0
            /\ w_status' = st
            /\ UNCHANGED w_written
    /\ raw_writes' = raw_writes + 1
    /\ pc' = AfterWrite(w_ret', w_status')
    /\ UNCHANGED <<last_op, w_total_bytes, w_result>>
    /\ UNCHANGED readVars
    /\ UNCHANGED sleepVars

\* Lines 201, 204, 208: the return.
WriteReturn ==
    /\ pc = "write_ret"
    /\ w_result' = write_data_in_ssl(w_ret, w_written, w_status)
    /\ pc' = "idle"
    /\ last_op' = "write"
    /\ UNCHANGED <<w_total_bytes, w_ret, w_written, w_status, raw_writes>>
    /\ UNCHANGED readVars
    /\ UNCHANGED sleepVars

Next ==
    \/ CallRead
    \/ ReadChunk
    \/ ReadFail
    \/ Finalize
    \/ CallWrite
    \/ SSLWriteEx
    \/ WriteReturn

Spec == Init /\ [][Next]_vars

\* read_data_from_ssl alone, reading a long message.
NextBuf ==
    \/ CallRead
    \/ ReadChunkLong
    \/ ReadFail
    \/ Finalize

SpecBuf == Init /\ [][NextBuf]_vars

\* read_data_from_ssl on a channel whose error codes are not limited to the
\* four classes.
NextAny ==
    \/ NextBuf
    \/ ReadFailOther

SpecAny == Init /\ [][NextAny]_vars

\* The bytes the raw reads of the current operation delivered, in order.
RECURSIVE Concat(_, _)
Concat(lens, k) ==
    IF k = 0 THEN <<>> ELSE Concat(lens, k - 1) \o Chunk(k, lens[k])

received == Concat(chunk_lens, Len(chunk_lens))

TypeOK ==
    /\ pc \in {"idle", "reading", "finalize", "crashed", "write_call", "write_ret"}
    /\ total_bytes \in Nat
    /\ attempts_after_end_message \in 0..MAX_RETRIES_TO_STOP_READING
    /\ pc # "crashed" => Len(received) = total_bytes

\* A synchronous thread keeps running: every raw call returns and the
\* statement after it is executed.
FairSpec ==
    /\ Spec
    /\ WF_vars(ReadChunk \/ ReadFail)
    /\ WF_vars(Finalize)
    /\ WF_vars(SSLWriteEx)
    /\ WF_vars(WriteReturn)

\* ------------------------------------------------------------------ claims
InRead == pc \in {"reading", "finalize"}
ReadReturned == pc = "idle" /\ last_op = "read"
WriteReturned == pc = "idle" /\ last_op = "write"
Abnormal == {SSL_ERROR_WANT_WRITE, SSL_ERROR_SYSCALL, SSL_ERROR_SSL}

\* The payload handed to the caller: the first total_bytes bytes of body.
Payload == SubSeq(body, 1, Min(total_bytes, Len(body)))

PayloadIsReceived ==
    /\ total_bytes = Len(received)
    /\ Len(body) >= total_bytes
    /\ Payload = received

\* C1: when the raw reads delivered n >= 1 chunks and the operation was then
\* ended by a zero-byte read or by 3 would-block failures in a row, and no
\* allocation failed, the returned total_bytes is the sum of the chunk sizes,
\* the payload is the concatenation of the chunks byte for byte, and a flag
\* that was false on entry is false on return.
C1_ConcatReturned ==
    ( /\ ReadReturned
      /\ ~alloc_failed
      /\ Len(chunk_lens) >= 1
      /\ \/ exit_reason = "zero_read"
         \/ exit_reason = "stop_reading" /\ fail_streak = MAX_RETRIES_TO_STOP_READING )
    => ( /\ PayloadIsReceived
         /\ (entry_end_connection = FALSE => end_connection = FALSE) )

C1_Witness ==
    /\ ReadReturned
    /\ ~alloc_failed
    /\ Len(chunk_lens) = 7
    /\ total_bytes > FULL_BUFFER_SIZE
    /\ exit_reason = "stop_reading"
    /\ fail_streak = MAX_RETRIES_TO_STOP_READING
    /\ entry_end_connection = FALSE
    /\ Payload = received

\* C2: when the very first raw read of a read operation returns zero bytes,
\* the operation returns total_bytes = 0 and the end-of-connection flag true.
C2_FirstZeroSetsFlag ==
    ( /\ ReadReturned
      /\ chunk_lens = <<>>
      /\ fail_streak = 1
      /\ read_bytes = 0 )
    => (total_bytes = 0 /\ end_connection = TRUE)

\* C3: when every raw read fails with would-block-on-read and no byte is
\* received, the loop is left only when the first-message counter has reached
\* 10, after 10 raw reads and one sleep per attempt, with an empty payload.
C3_TenAttempts ==
    ( /\ pc = "finalize"
      /\ chunk_lens = <<>>
      /\ read_bytes < 0
      /\ err = SSL_ERROR_WANT_READ )
    => ( /\ attempts_to_get_first_message = MAX_RETRIES_TO_START_READING
         /\ fail_streak = MAX_RETRIES_TO_START_READING
         /\ sleeps >= MAX_RETRIES_TO_START_READING
         /\ total_bytes = 0 )

\* C4: after k would-block-on-read failures, 1 <= k < 10, and no byte yet, the
\* reader is still in its loop (AWAITING_FIRST_BYTE), so that a later raw read
\* can deliver the first bytes.
C4_LatencyTolerated ==
    ( /\ InRead
      /\ chunk_lens = <<>>
      /\ fail_streak >= 1
      /\ fail_streak < MAX_RETRIES_TO_START_READING
      /\ read_bytes < 0
      /\ err = SSL_ERROR_WANT_READ )
    => pc = "reading"

\* C5: with failing raw reads limited to a zero-byte return and the four error
\* classes, the loop is never still running after 10 failing raw reads before
\* the first byte or 3 failing raw reads in a row after data, and every read
\* operation whose allocations succeed leaves its loop.
C5_ReadTerminates ==
    /\ [](pc = "reading" =>
            IF first_reading_done
            THEN fail_streak < MAX_RETRIES_TO_STOP_READING
            ELSE fail_streak < MAX_RETRIES_TO_START_READING)
    /\ ((pc = "reading") ~> (pc = "finalize" \/ alloc_failed))
    /\ ((pc = "finalize") ~> (ReadReturned \/ alloc_failed))

C5_Witness ==
    /\ pc = "finalize"
    /\ first_reading_done
    /\ fail_streak = MAX_RETRIES_TO_STOP_READING
    /\ exit_reason = "stop_reading"
    /\ ~alloc_failed

\* C6: a raw read that fails with would-block-on-write, a syscall-level or a
\* protocol-level error is the last raw read of the operation (the loop is
\* left in the same iteration), and, allocations succeeding, the returned
\* payload is the concatenation of the chunks read before it.
C6_AbnormalEndsWithPartial ==
    /\ (pc = "reading" => ~(read_bytes < 0 /\ err \in Abnormal))
    /\ ( (ReadReturned /\ ~alloc_failed /\ read_bytes < 0 /\ err \in Abnormal)
         => PayloadIsReceived )

C6_Witness ==
    /\ ReadReturned
    /\ ~alloc_failed
    /\ read_bytes < 0
    /\ err = SSL_ERROR_SYSCALL
    /\ exit_reason = "abnormal"
    /\ Len(chunk_lens) = 2
    /\ total_bytes > 0
    /\ Payload = received

\* C7: in every state of a read operation and at its return, if total_bytes > 0
\* the operation has not changed the end-of-connection flag.
C7_FlagOnlyWithoutData ==
    ((InRead \/ ReadReturned) /\ total_bytes > 0)
    => end_connection = entry_end_connection

C7_Witness ==
    /\ ReadReturned
    /\ total_bytes > 0
    /\ read_bytes = 0
    /\ exit_reason = "zero_read"
    /\ entry_end_connection = FALSE
    /\ end_connection = FALSE

\* C8: write_data_in_ssl returns the byte count SSL_write_ex reported when
\* SSL_write_ex succeeded, and -1 when it failed, whatever the error class.
C8_WriteResult ==
    WriteReturned =>
        /\ (w_ret # 0 => (w_result = w_written /\ w_result >= 0))
        /\ (w_ret = 0 => w_result = -1)

C8_Witness ==
    /\ WriteReturned
    /\ w_total_bytes = 500
    /\ w_ret = 1
    /\ w_written = 500
    /\ w_result = 500

\* C9: a call of write_data_in_ssl starts from the same state whatever came
\* before it, calls SSL_write_ex exactly once and never sleeps.
C9_WriteOnce ==
    /\ (pc = "write_call" => (raw_writes = 0 /\ w_ret = 0 /\ w_result = 0))
    /\ ((pc = "write_ret" \/ WriteReturned) => raw_writes = 1)
    /\ ((pc \in {"write_call", "write_ret"} \/ WriteReturned) => sleeps = 0)

C9_Witness ==
    /\ WriteReturned
    /\ w_ret = 0
    /\ w_status = SSL_ERROR_WANT_WRITE
    /\ raw_writes = 1
    /\ w_result = -1

\* C10: in every state of a read operation whose allocations succeeded,
\* allocated_space >= total_bytes and the storage reserved for body is at
\* least total_bytes + 1 bytes.
C10_CapacityInvariant ==
    ((InRead \/ ReadReturned) /\ ~alloc_failed)
    => (allocated_space >= total_bytes /\ Len(body) >= total_bytes + 1)

\* A step of the read loop that appends a chunk to body.
AppendStep == pc = "reading" /\ total_bytes' > total_bytes

\* An append for which save_read_data takes its growth branch.
GrowthStep == AppendStep /\ NeedsGrowth(allocated_space, total_bytes)

\* The growth branch whose realloc returned NULL.
FailedGrowthStep == GrowthStep /\ ~alloc_failed /\ alloc_failed'

\* C11: an append of k bytes that grows the buffer doubles allocated_space
\* once, which gives allocated_space >= total_bytes + k, leaves the
\* total_bytes bytes written before unchanged and, the realloc succeeding,
\* gives a block that holds every chunk appended so far, byte for byte.
C11_GrowthPreserves ==
    [][GrowthStep =>
         /\ allocated_space' = 2 * allocated_space
         /\ allocated_space' >= total_bytes + read_bytes'
         /\ SubSeq(body', 1, Min(total_bytes, Len(body)))
               = SubSeq(body, 1, Min(total_bytes, Len(body)))
         /\ ~alloc_failed' =>
               /\ Len(body') > total_bytes + read_bytes'
               /\ SubSeq(body', 1, total_bytes') = received']_vars

\* The buffer has grown twice and holds what was received.
C11_Witness ==
    /\ pc = "reading"
    /\ ~alloc_failed
    /\ allocated_space = 4 * FULL_BUFFER_SIZE
    /\ Len(body) = allocated_space + 1
    /\ total_bytes > 2 * FULL_BUFFER_SIZE - READER_BUFFER_SIZE
    /\ Payload = received

\* C12: when the realloc of the growth branch fails, the append leaves body,
\* total_bytes and allocated_space as they were, so that allocated_space never
\* exceeds the storage reserved.
C12_FailedGrowthIsClean ==
    [][FailedGrowthStep =>
         /\ body' = body
         /\ total_bytes' = total_bytes
         /\ allocated_space' = allocated_space
         /\ allocated_space' <= Len(body')
         /\ ~heap_overflow']_vars

\* The step that ends a read operation whose earlier allocations succeeded.
FinalizeStep == pc = "finalize" /\ ~alloc_failed /\ pc' # "finalize"

\* C13: whether the final realloc succeeds or fails, the operation returns a
\* block that holds the total_bytes accumulated bytes followed by a sentinel
\* at index total_bytes, inside the storage reserved.
C13_FinalizeNeverTruncates ==
    [][FinalizeStep =>
         /\ pc' = "idle"
         /\ total_bytes' = total_bytes
         /\ Len(body') >= total_bytes + 1
         /\ body'[total_bytes + 1] = 0
         /\ SubSeq(body', 1, total_bytes) = received
         /\ ~heap_overflow']_vars

\* C14: once a byte has been received, attempts_after_end_message is the
\* number of would-block failures since the last successful raw read; the loop
\* goes on while it is 0, 1 or 2 and is left exactly when it reaches 3.
C14_ConsecutiveWouldBlocks ==
    /\ (pc = "reading" /\ first_reading_done) =>
          /\ attempts_after_end_message = fail_streak
          /\ attempts_after_end_message < MAX_RETRIES_TO_STOP_READING
    /\ (pc = "reading" /\ read_bytes > 0) => attempts_after_end_message = 0
    /\ (pc = "finalize" /\ first_reading_done /\ read_bytes < 0
          /\ err = SSL_ERROR_WANT_READ) =>
          /\ attempts_after_end_message = MAX_RETRIES_TO_STOP_READING
          /\ fail_streak = MAX_RETRIES_TO_STOP_READING
          /\ exit_reason = "stop_reading"

\* Two chunks, then the loop is still running after two would-blocks.
C14_Witness ==
    /\ pc = "reading"
    /\ Len(chunk_lens) = 2
    /\ err = SSL_ERROR_WANT_READ
    /\ fail_streak = 2
    /\ attempts_after_end_message = 2

\* C15 as stated: an append changes allocated_space only when the chunk is
\* larger than allocated_space - total_bytes, and then doubles it.
C15_GrowsOnlyOnOverflow ==
    [][AppendStep =>
         IF read_bytes' > allocated_space - total_bytes
         THEN allocated_space' = 2 * allocated_space
         ELSE allocated_space' = allocated_space]_vars

\* C15 amended: an append doubles allocated_space when the headroom
\* allocated_space - total_bytes is below READER_BUFFER_SIZE, whatever the size
\* of the chunk, and leaves it unchanged otherwise; no other step of a read
\* operation changes it.
C15_GrowsBelowReaderBufferSize ==
    [][/\ AppendStep =>
            IF allocated_space - total_bytes < READER_BUFFER_SIZE
            THEN allocated_space' = 2 * allocated_space
            ELSE allocated_space' = allocated_space
       /\ (InRead /\ ~AppendStep) => allocated_space' = allocated_space]_vars

\* A chunk of 64 bytes that fitted in the 64 bytes of headroom has doubled the
\* capacity.
C15_Witness ==
    /\ pc = "reading"
    /\ read_bytes = 64
    /\ total_bytes = FULL_BUFFER_SIZE
    /\ allocated_space = 2 * FULL_BUFFER_SIZE
    /\ ~alloc_failed

\* C16: when a read operation has returned, the flag is true exactly when the
\* operation received no byte and ended on a zero-byte read, whatever the flag
\* held when the operation started.
C16_FlagTracksLastOperation ==
    ReadReturned => (end_connection <=> (total_bytes = 0 /\ read_bytes = 0))

\* A raw read of the loop that returned <= 0.
FailingReadStep == pc = "reading" /\ fail_streak' = fail_streak + 1

\* C18: every failing raw read either ends the loop or adds one to
\* attempts_to_get_first_message or to attempts_after_end_message.
C18_FailureMakesProgress ==
    [][FailingReadStep =>
         \/ pc' # "reading"
         \/ attempts_to_get_first_message' = attempts_to_get_first_message + 1
         \/ attempts_after_end_message' = attempts_after_end_message + 1]_vars

\* C19: once SSL_read has returned, the index read_bytes of the store
\* read_buffer[read_bytes] = '\0' lies within the READER_BUFFER_SIZE + 1 bytes
\* of read_buffer.
C19_SentinelIndexInBounds ==
    (InRead /\ (fail_streak > 0 \/ chunk_lens # <<>>))
    => read_bytes \in 0..READER_BUFFER_SIZE

\* C20: both retry counters stay within their limits, first_reading_done is
\* true exactly when total_bytes > 0 and is never cleared during the operation,
\* and attempts_to_get_first_message changes only while first_reading_done is
\* false.
C20_CountersAndFirstReadingDone ==
    /\ [](/\ attempts_to_get_first_message \in 0..MAX_RETRIES_TO_START_READING
          /\ attempts_after_end_message \in 0..MAX_RETRIES_TO_STOP_READING
          /\ InRead => (first_reading_done <=> total_bytes > 0))
    /\ [][InRead =>
            /\ (attempts_to_get_first_message' # attempts_to_get_first_message
                   /\ pc' # "idle") => ~first_reading_done
            /\ (first_reading_done /\ pc' # "idle") => first_reading_done']_vars

\* The first-message counter has moved before any byte, and the operation is
\* about to return.
C20_Witness ==
    /\ pc = "finalize"
    /\ ~first_reading_done
    /\ total_bytes = 0
    /\ attempts_to_get_first_message = 1
    /\ attempts_after_end_message = 0

\* ------------------------------------------------------ milliseconds_sleep
\* C integer division and remainder (truncation toward zero).
CDiv(a, b) == IF a >= 0 THEN a \div b ELSE -((-a) \div b)
CMod(a, b) == a - b * CDiv(a, b)

\* Lines 26-27: the timespec for a number of milliseconds.
ToTimespec(ms) == [tv_sec |-> CDiv(ms, 1000), tv_nsec |-> CMod(ms, 1000) * 1000000]

\* The milliseconds a timespec stands for.
TimespecMs(ts) == ts.tv_sec * 1000 + CDiv(ts.tv_nsec, 1000000)

\* nanosleep rejects a timespec with tv_sec < 0 or tv_nsec outside
\* 0..999999999 with EINVAL.
ValidTimespec(ts) == ts.tv_sec >= 0 /\ ts.tv_nsec \in 0..999999999

\* The loop test that goes on whenever errno reads EINTR.
SleepAgain_errno_only(res, e) == e = "EINTR"

\* Line 31: while (res && errno == EINTR).
SleepAgain(res, e) == res # 0 /\ e = "EINTR"

\* Lines 21-27: entry of milliseconds_sleep; errno holds whatever the last
\* failing library call of the thread left in it.
CallSleep ==
    /\ s_pc \in {"idle", "returned"}
    /\ \E ms \in SleepArgs, e \in Errnos :
        /\ s_milliseconds' = ms
        /\ s_ts' = ToTimespec(ms)
        /\ s_errno' = e
    /\ s_pc' = "nanosleep"
    /\ s_res' = 0
    /\ s_elapsed' = 0
    /\ s_calls' = 0
    /\ UNCHANGED <<readVars, writeVars, pc, last_op>>

\* Lines 29-33: one iteration of the do-while loop: res = nanosleep(&ts, &ts),
\* then the loop test, then return res.  nanosleep fails with EINVAL on an
\* invalid timespec; otherwise it either lasts the whole of ts and returns 0
\* without touching errno, or a signal interrupts it after t milliseconds and
\* it returns -1 with errno = EINTR and the remaining time written to ts.
Nanosleep ==
    /\ s_pc = "nanosleep"
    /\ \/ /\ ~ValidTimespec(s_ts)
          /\ s_res' = -1
          /\ s_errno' = "EINVAL"
          /\ UNCHANGED <<s_ts, s_elapsed>>
       \/ /\ ValidTimespec(s_ts)
          /\ s_res' = 0
          /\ s_elapsed' = s_elapsed + TimespecMs(s_ts)
          /\ UNCHANGED <<s_ts, s_errno>>
       \/ /\ ValidTimespec(s_ts)
          /\ s_calls < MaxInterrupts
          /\ \E t \in InterruptAfter :
              /\ t < TimespecMs(s_ts)
              /\ s_res' = -1
              /\ s_errno' = "EINTR"
              /\ s_ts' = ToTimespec(TimespecMs(s_ts) - t)
              /\ s_elapsed' = s_elapsed + t
    /\ s_calls' = s_calls + 1
    /\ s_pc' = IF SleepAgain(s_res', s_errno') THEN "nanosleep" ELSE "returned"
    /\ UNCHANGED <<s_milliseconds, readVars, writeVars, pc, last_op>>

NextSleep == CallSleep \/ Nanosleep

SleepSpec == Init /\ [][NextSleep]_vars

\* C17: nanosleep is called again only after an interrupted call, and then
\* with the time that remains of the request; milliseconds_sleep returns 0
\* only when the whole of the requested time has been spent suspended, and
\* returns non-zero only when nanosleep failed with an error other than EINTR.
C17_SleepNeverReturnsEarly ==
    /\ (s_pc = "nanosleep" /\ s_calls > 0) =>
          /\ s_res # 0 /\ s_errno = "EINTR"
          /\ TimespecMs(s_ts) = s_milliseconds - s_elapsed
    /\ (s_pc = "returned" /\ s_res = 0) => s_elapsed >= s_milliseconds
    /\ (s_pc = "returned" /\ s_res # 0) => s_errno = "EINVAL"

\* A sleep of SLEEP_TIME milliseconds entered with a stale EINTR in errno has
\* returned 0 after three interruptions.
C17_Witness ==
    /\ s_pc = "returned"
    /\ s_milliseconds = SLEEP_TIME
    /\ s_calls = MaxInterrupts + 1
    /\ s_res = 0
    /\ s_errno = "EINTR"
    /\ s_elapsed = SLEEP_TIME

====
